---------------------------- MODULE Spec2Model ----------------------------
(***************************************************************************)
(* A model of the two Nuitka user plugins of this repository:              *)
(*   nuitka/plugins/standard/GeventPlugin.py  (GeventPlugin, its detector) *)
(*   nuitka/plugins/standard/TorchPlugin.py   (TorchPlugin, its detector)  *)
(*                                                                         *)
(* The host compiler calls the plugins' hooks one at a time, in an order   *)
(* and with arguments of its own choosing.  Every hook is one action; the  *)
(* record `call` keeps the arguments, the locals and the outcome of the    *)
(* hook that ran last.                                                     *)
(*                                                                         *)
(* Python strings are sequences of one-character strings, so startswith,   *)
(* endswith, find, lower, split, splitlines and join are computed          *)
(* character by character, as Python computes them.                        *)
(***************************************************************************)
EXTENDS Integers, Sequences, FiniteSets, TLC

VARIABLES
    call,           \* the hook that ran last: arguments, locals, outcome
    files_copied,   \* TorchPlugin.files_copied
    env,            \* what the host's Python and file system hold for torch
    dirs,           \* the directories that exist in the output tree
    copied,         \* log of the shutil.copy calls made, in order
    runs,           \* number of times get_torch_core_binaries was entered
    failure         \* the first exception that left considerExtraDlls

vars == <<call, files_copied, env, dirs, copied, runs, failure>>

torch_vars == <<files_copied, env, dirs, copied, runs, failure>>

---------------------------------------------------------------------------
(* Bounds of the model.                                                    *)

\* entries into get_torch_core_binaries a behaviour is followed for
MaxRuns == 3

\* tokens concatenated into a module or package name
MaxParts == 3

\* characters of a source text handed to onModuleSourceCode
MaxSrcLen == 3

\* entries of the torch/lib directory
MaxEntries == 2

---------------------------------------------------------------------------
(* Python's str operations.                                                *)

S_gevent == <<"g","e","v","e","n","t">>

S_torch == <<"t","o","r","c","h">>

S_gevent_config == <<"g","e","v","e","n","t",".","_","c","o","n","f","i","g">>

S_x == <<"x">>

S_dot == <<".">>

S_nn == <<"n","n">>

S_lib == <<"l","i","b">>

S_init_py == <<"_","_","i","n","i","t","_","_",".","p","y">>

S_torchvision_transforms == <<"t","o","r","c","h","v","i","s","i","o","n",".","t","r","a","n","s","f","o","r","m","s">>

S_torchvision == <<"t","o","r","c","h","v","i","s","i","o","n">>

S_PIL == <<"P","I","L">>

S_functional == <<"f","u","n","c","t","i","o","n","a","l">>

S_Image == <<"I","m","a","g","e">>

S_ImageColor == <<"I","m","a","g","e","C","o","l","o","r">>

S_ImageOps == <<"I","m","a","g","e","O","p","s">>

S_ImageEnhance == <<"I","m","a","g","e","E","n","h","a","n","c","e">>

S_ImageStat == <<"I","m","a","g","e","S","t","a","t">>

S_ImageFilter == <<"I","m","a","g","e","F","i","l","t","e","r">>

S_ImageDraw == <<"I","m","a","g","e","D","r","a","w">>

\* the extensions get_torch_core_binaries keeps
CoreExtensions == {<<".","d","l","l">>, <<".","s","o">>, <<".","d","y","l","i","b">>, <<".","h">>}

\* str.startswith
StartsWith(s, p) ==
    /\ Len(s) >= Len(p)
    /\ SubSeq(s, 1, Len(p)) = p

\* str.endswith
EndsWith(s, p) ==
    /\ Len(s) >= Len(p)
    /\ SubSeq(s, Len(s) - Len(p) + 1, Len(s)) = p

\* s[n:] for 0 <= n
DropFirst(s, n) == IF n >= Len(s) THEN <<>> ELSE SubSeq(s, n + 1, Len(s))

\* str.find: the lowest 0-based index where sub occurs, -1 when it does not
Find(s, sub) ==
    LET hits == {i \in 0..(Len(s) - Len(sub)) : SubSeq(s, i + 1, i + Len(sub)) = sub}
    IN  IF hits = {} THEN -1
        ELSE CHOOSE i \in hits : \A j \in hits : i <= j

\* s[idx:] as Python slices it: a negative idx counts from the end
SliceFrom(s, idx) ==
    IF idx >= 0 THEN DropFirst(s, idx)
    ELSE IF -idx >= Len(s) THEN s
    ELSE SubSeq(s, Len(s) + idx + 1, Len(s))

UpperChars == <<"A","B","C","D","E","F","G","H","I","J","K","L","M",
                "N","O","P","Q","R","S","T","U","V","W","X","Y","Z">>

LowerChars == <<"a","b","c","d","e","f","g","h","i","j","k","l","m",
                "n","o","p","q","r","s","t","u","v","w","x","y","z">>

\* the lower case letter of every upper case letter
ToLower ==
    [c \in {UpperChars[i] : i \in 1..Len(UpperChars)} |->
        LowerChars[CHOOSE i \in 1..Len(UpperChars) : UpperChars[i] = c]]

LowerChar(c) == IF c \in DOMAIN ToLower THEN ToLower[c] ELSE c

\* str.lower
Lower(s) == [i \in 1..Len(s) |-> LowerChar(s[i])]

\* str.split(sep) for a one-character sep: "a..b" gives a, the empty string, b
RECURSIVE SplitAt(_, _, _)
SplitAt(s, sep, cur) ==
    IF s = <<>> THEN <<cur>>
    ELSE IF Head(s) = sep THEN <<cur>> \o SplitAt(Tail(s), sep, <<>>)
    ELSE SplitAt(Tail(s), sep, Append(cur, Head(s)))

Split(s, sep) == SplitAt(s, sep, <<>>)

\* the line boundaries str.splitlines knows, among the characters modelled
LineBreaks == {"\n", "\r", "\f"}

\* str.splitlines: "\r\n" is one boundary, and a text that ends with a
\* boundary has no empty last line
RECURSIVE SplitLinesAt(_, _)
SplitLinesAt(s, cur) ==
    IF s = <<>> THEN (IF cur = <<>> THEN <<>> ELSE <<cur>>)
    ELSE IF Head(s) = "\r" /\ Len(s) >= 2 /\ s[2] = "\n"
         THEN <<cur>> \o SplitLinesAt(DropFirst(s, 2), <<>>)
    ELSE IF Head(s) \in LineBreaks
         THEN <<cur>> \o SplitLinesAt(Tail(s), <<>>)
    ELSE SplitLinesAt(Tail(s), Append(cur, Head(s)))

SplitLines(s) == SplitLinesAt(s, <<>>)

\* sep.join(parts)
RECURSIVE Join(_, _)
Join(parts, sep) ==
    IF parts = <<>> THEN <<>>
    ELSE IF Len(parts) = 1 THEN parts[1]
    ELSE parts[1] \o sep \o Join(Tail(parts), sep)

\* every concatenation of at most n of the tokens
RECURSIVE Concats(_, _)
Concats(tokens, n) ==
    IF n = 0 THEN {<<>>}
    ELSE LET shorter == Concats(tokens, n - 1)
         IN  shorter \cup {s \o t : s \in shorter, t \in tokens}

\* a dotted module name: not empty, no empty component
IsDottedName(s) == s # <<>> /\ \A part \in {Split(s, ".")[i] : i \in 1..Len(Split(s, "."))} : part # <<>>

---------------------------------------------------------------------------
(* Python's os.path operations, as posixpath computes them.                *)

\* the last 1-based position of "/" in p, 0 when there is none
LastSlash(p) ==
    LET at == {i \in 1..Len(p) : p[i] = "/"}
    IN  IF at = {} THEN 0 ELSE CHOOSE i \in at : \A j \in at : j <= i

\* str.rstrip("/")
RECURSIVE RStripSlash(_)
RStripSlash(p) ==
    IF p # <<>> /\ p[Len(p)] = "/" THEN RStripSlash(SubSeq(p, 1, Len(p) - 1)) ELSE p

\* os.path.dirname
DirName(p) ==
    LET head == SubSeq(p, 1, LastSlash(p))
    IN  IF head # <<>> /\ \E i \in 1..Len(head) : head[i] # "/"
        THEN RStripSlash(head)
        ELSE head

\* os.path.join of two parts
PathJoin(a, b) ==
    IF StartsWith(b, <<"/">>) THEN b
    ELSE IF a = <<>> \/ EndsWith(a, <<"/">>) THEN a \o b
    ELSE a \o <<"/">> \o b

\* a directory and the directories above it, the root left out
RECURSIVE WithParents(_)
WithParents(p) ==
    IF p = <<>> \/ DirName(p) = p THEN {}
    ELSE {p} \cup WithParents(DirName(p))

---------------------------------------------------------------------------
(* What the host hands to the gevent hooks.                                *)

GeventNames == {s \in Concats({S_gevent, S_x, S_dot}, MaxParts) : IsDottedName(s)}

\* module_package is None or "" for a top level module: both are falsy, and
\* the empty string stands for both
GeventPackages == GeventNames \cup {<<>>}

ModuleFilenames == {"gevent/_config.py", "x.so"}

ModuleKinds == {"py", "shlib"}

OSNames == {"Windows", "Linux", "Darwin"}

SourceChars == {"a", "\n", "\r", "\f"}

SourceTexts == UNION {[1..n -> SourceChars] : n \in 0..MaxSrcLen}

SourceModuleNames == {S_gevent_config, S_gevent, S_gevent_config \o S_x, S_x}

NoCall == [op |-> "none"]

\* the host is between two hook calls
HostIdle == call = NoCall

\* the host has taken the outcome of the hook it called
HostReturn ==
    /\ call # NoCall
    /\ call' = NoCall
    /\ UNCHANGED torch_vars

---------------------------------------------------------------------------
(* GeventPlugin                                                            *)

\* a variant that takes module_name whenever it starts with the package, without
\* looking for the "." that must follow the package
GeventFullName_noDotCheck(module_package, module_name) ==
    IF module_package # <<>>
    THEN IF StartsWith(module_name, module_package)
         THEN module_name
         ELSE IF EndsWith(module_package, module_name)
              THEN module_package
              ELSE module_package \o S_dot \o module_name
    ELSE module_name

\* the full_name onModuleEncounter derives
GeventFullName(module_package, module_name) ==
    IF module_package # <<>>
    THEN IF StartsWith(module_name, module_package)
         THEN LET t == DropFirst(module_name, Len(module_package))
              IN  IF StartsWith(t, S_dot)
                  THEN module_name
                  ELSE module_package \o S_dot \o module_name
         ELSE IF EndsWith(module_package, module_name)
              THEN module_package
              ELSE module_package \o S_dot \o module_name
    ELSE module_name

\* a variant that tests module_name instead of the derived full_name
GeventEncounterResult_byModuleName(module_filename, module_name, module_package, module_kind) ==
    IF StartsWith(module_name, S_gevent)
    THEN <<"tuple", TRUE, "everything from gevent">>
    ELSE <<"None">>

GeventEncounterResult(module_filename, module_name, module_package, module_kind) ==
    IF StartsWith(GeventFullName(module_package, module_name), S_gevent)
    THEN <<"tuple", TRUE, "everything from gevent">>
    ELSE <<"None">>

GeventOnModuleEncounter ==
    /\ HostIdle
    /\ \E module_filename \in ModuleFilenames, module_name \in GeventNames,
          module_package \in GeventPackages, module_kind \in ModuleKinds :
          call' = [op |-> "GeventPlugin.onModuleEncounter",
                   module_filename |-> module_filename,
                   module_name |-> module_name,
                   module_package |-> module_package,
                   module_kind |-> module_kind,
                   full_name |-> GeventFullName(module_package, module_name),
                   ret |-> GeventEncounterResult(module_filename, module_name,
                                                 module_package, module_kind)]
    /\ UNCHANGED torch_vars

ConfigLine == <<"c","o","n","f","i","g",".","t","r","a","c","k","_",
                "g","r","e","e","n","l","e","t","_","t","r","e","e",
                " ","=", " ","F","a","l","s","e">>

\* a variant that joins the lines without a separator
GeventSourceCode_joinEmpty(module_name, source_code) ==
    IF module_name # S_gevent_config
    THEN source_code
    ELSE Join(Append(SplitLines(source_code), ConfigLine), <<>>)

GeventSourceCode(module_name, source_code) ==
    IF module_name # S_gevent_config
    THEN source_code
    ELSE LET source_lines == Append(SplitLines(source_code), ConfigLine)
         IN  Join(source_lines, <<"\n">>)

GeventOnModuleSourceCode ==
    /\ HostIdle
    /\ \E module_name \in SourceModuleNames, source_code \in SourceTexts :
          call' = [op |-> "GeventPlugin.onModuleSourceCode",
                   module_name |-> module_name,
                   source_code |-> source_code,
                   ret |-> GeventSourceCode(module_name, source_code)]
    /\ UNCHANGED torch_vars

\* a variant that forgets the operating system
GeventCompilation_anyOS(module_name, os_name) ==
    IF StartsWith(module_name, S_gevent)
    THEN <<"str", "bytecode">>
    ELSE <<"None">>

\* getOS() is the host's; os_name is what it answers
GeventCompilation(module_name, os_name) ==
    IF StartsWith(module_name, S_gevent) /\ os_name = "Windows"
    THEN <<"str", "bytecode">>
    ELSE <<"None">>

GeventDecideCompilation ==
    /\ HostIdle
    /\ \E module_name \in GeventNames, os_name \in OSNames :
          call' = [op |-> "GeventPlugin.decideCompilation",
                   module_name |-> module_name,
                   os_name |-> os_name,
                   ret |-> GeventCompilation(module_name, os_name)]
    /\ UNCHANGED torch_vars

---------------------------------------------------------------------------
(* The state before any hook ran.  The gevent hooks keep no state, so the  *)
(* torch variables stay as they start.                                     *)

NoEnv == [loader |-> FALSE, torch_file |-> <<>>, lib_isdir |-> FALSE, lib_entries |-> <<>>,
          case_sensitive |-> TRUE]

GeventInit ==
    /\ call = NoCall
    /\ files_copied = FALSE
    /\ env = NoEnv
    /\ dirs = {}
    /\ copied = <<>>
    /\ runs = 0
    /\ failure = "none"

GeventNext ==
    \/ GeventOnModuleEncounter
    \/ GeventOnModuleSourceCode
    \/ GeventDecideCompilation
    \/ HostReturn

GeventSpec == GeventInit /\ [][GeventNext]_vars

---------------------------------------------------------------------------
(* The detectors, which the host loads when the plugin itself is not       *)
(* activated.  warnUnusedPlugin is the host's; warned tells whether the    *)
(* hook called it.                                                         *)

DiscoveredNames == {s \in Concats({S_torch, S_gevent, S_x, S_nn, S_dot}, MaxParts) : IsDottedName(s)}

\* the components of a split name, as a set
Components(full_name) == {full_name[i] : i \in 1..Len(full_name)}

\* a variant that tests the prefix of the name, as the gevent detector does
TorchDetectorWarns_byPrefix(name) == StartsWith(name, S_torch)

\* TorchPluginDetector.onModuleDiscovered: full_name is the split name
TorchDetectorWarns(name) ==
    LET full_name == Split(name, ".")
    IN  S_torch \in Components(full_name)

TorchDetectorOnModuleDiscovered ==
    /\ HostIdle
    /\ \E name \in DiscoveredNames :
          call' = [op |-> "TorchPluginDetector.onModuleDiscovered",
                   module |-> name,
                   warned |-> TorchDetectorWarns(name)]
    /\ UNCHANGED torch_vars

\* GeventPluginDetector.onModuleDiscovered
GeventDetectorWarns(full_name) == StartsWith(full_name, S_gevent)

GeventDetectorOnModuleDiscovered ==
    /\ HostIdle
    /\ \E name \in DiscoveredNames :
          call' = [op |-> "GeventPluginDetector.onModuleDiscovered",
                   module |-> name,
                   warned |-> GeventDetectorWarns(name)]
    /\ UNCHANGED torch_vars

DetectorNext ==
    \/ TorchDetectorOnModuleDiscovered
    \/ GeventDetectorOnModuleDiscovered
    \/ HostReturn

DetectorSpec == GeventInit /\ [][DetectorNext]_vars

---------------------------------------------------------------------------
(* Claims about the detectors, checked under DetectorSpec.                 *)

InTorchDetector == call.op = "TorchPluginDetector.onModuleDiscovered"

InGeventDetector == call.op = "GeventPluginDetector.onModuleDiscovered"

\* "torch" stands in the name between dots or the ends of the name
HasTorchComponent(name) ==
    \E i \in 1..Len(name) :
        /\ i + Len(S_torch) - 1 <= Len(name)
        /\ SubSeq(name, i, i + Len(S_torch) - 1) = S_torch
        /\ (i = 1 \/ name[i - 1] = ".")
        /\ (i + Len(S_torch) - 1 = Len(name) \/ name[i + Len(S_torch)] = ".")

---------------------------------------------------------------------------
(* Claims about GeventPlugin, checked under GeventSpec.                    *)

InGeventEncounter == call.op = "GeventPlugin.onModuleEncounter"

InGeventSourceCode == call.op = "GeventPlugin.onModuleSourceCode"

InGeventDecide == call.op = "GeventPlugin.decideCompilation"

\* C3: onModuleEncounter returns (True, "everything from gevent") exactly
\* when the full_name it derived starts with "gevent" and None otherwise, and
\* no other module_filename or module_kind would change the result.
C3_EncounterByPrefix ==
    InGeventEncounter =>
        /\ call.ret = (IF StartsWith(call.full_name, S_gevent)
                       THEN <<"tuple", TRUE, "everything from gevent">>
                       ELSE <<"None">>)
        /\ \A f \in ModuleFilenames, k \in ModuleKinds :
              GeventEncounterResult(f, call.module_name, call.module_package, k) = call.ret

\* a module included for its package alone: the name itself has no prefix
C3_Witness ==
    /\ InGeventEncounter
    /\ call.module_package # <<>>
    /\ ~StartsWith(call.module_name, S_gevent)
    /\ call.ret = <<"tuple", TRUE, "everything from gevent">>

\* C4: onModuleSourceCode returns the text unchanged for every module but
\* "gevent._config"; for that module the lines of the result are the lines
\* of the source, in order, followed by the one configuration line.
C4_SourcePatched ==
    InGeventSourceCode =>
        IF call.module_name = S_gevent_config
        THEN SplitLines(call.ret) = SplitLines(call.source_code) \o <<ConfigLine>>
        ELSE call.ret = call.source_code

\* gevent._config with several lines, one of them ended by "\r\n" or "\f"
C4_Witness ==
    /\ InGeventSourceCode
    /\ call.module_name = S_gevent_config
    /\ Len(SplitLines(call.source_code)) >= 2
    /\ \E i \in 1..Len(call.source_code) : call.source_code[i] # "\n" /\ call.source_code[i] \in LineBreaks

\* C5: decideCompilation returns "bytecode" exactly when the module name
\* starts with "gevent" and the operating system is Windows, None otherwise.
C5_BytecodeOnWindows ==
    InGeventDecide =>
        /\ (call.ret = <<"str", "bytecode">>) <=>
               (StartsWith(call.module_name, S_gevent) /\ call.os_name = "Windows")
        /\ call.ret \in {<<"str", "bytecode">>, <<"None">>}

\* a gevent module on another operating system gets no decision
C5_Witness ==
    /\ InGeventDecide
    /\ StartsWith(call.module_name, S_gevent)
    /\ call.os_name # "Windows"
    /\ call.ret = <<"None">>

\* the name has the form package + "." + rest
HasPackagePrefix(module_package, module_name) ==
    StartsWith(module_name, module_package \o S_dot)

\* the four cases as the claim words them, each taken when no earlier one is
FullNameAsClaimed(module_package, module_name) ==
    IF module_package = <<>> THEN module_name
    ELSE IF HasPackagePrefix(module_package, module_name) THEN module_name
    ELSE IF EndsWith(module_package, module_name) THEN module_package
    ELSE module_package \o S_dot \o module_name

\* the cases with the third one narrowed to a package that differs from the name
FullNameAmended(module_package, module_name) ==
    IF module_package = <<>> THEN module_name
    ELSE IF HasPackagePrefix(module_package, module_name) THEN module_name
    ELSE IF EndsWith(module_package, module_name) /\ module_package # module_name
         THEN module_package
    ELSE module_package \o S_dot \o module_name

\* C10 as stated: the derived full_name follows the four cases for every pair
\* of module_package and module_name.
C10_AsStated ==
    InGeventEncounter =>
        call.full_name = FullNameAsClaimed(call.module_package, call.module_name)

\* C10 amended: the full_name is module_name for an empty package or a name
\* of the form package + "." + rest, module_package when the package ends
\* with the name and differs from it, and package + "." + name otherwise,
\* which includes a package equal to the name.
C10_FullNameCases ==
    InGeventEncounter =>
        call.full_name = FullNameAmended(call.module_package, call.module_name)

\* the package equals the name, and the standard case is taken
C10_Witness ==
    /\ InGeventEncounter
    /\ call.module_package = call.module_name
    /\ call.full_name = call.module_package \o S_dot \o call.module_name

---------------------------------------------------------------------------
(* What the host's Python and file system hold for the torch hooks.        *)
(*                                                                         *)
(* env.loader     pkgutil.find_loader("torch") found a loader              *)
(* env.torch_file what loader.get_filename("torch") answers; torch is a    *)
(*                package, so this is <site>/torch/__init__.py, absolute   *)
(*                as get_module_file_attribute documents; empty when the   *)
(*                loader has no file name                                  *)
(* env.lib_isdir  <site>/torch/lib is a directory                          *)
(* env.lib_entries what os.listdir answers for it, in its order            *)
(* env.case_sensitive  the file system tells "A.dll" from "a.dll"          *)
(*                                                                         *)
(* The output tree holds the dist folders and nothing below them before    *)
(* the first hook runs.                                                    *)

SitePackages == {<<"/","S">>, <<"/","p","y","t","o","r","c","h">>}

TorchFiles == {PathJoin(PathJoin(site, S_torch), S_init_py) : site \in SitePackages}

EntryNames == {<<"a",".","d","l","l">>, <<"A",".","d","l","l">>, <<"b",".","s","o">>,
               <<"c",".","d","y","l","i","b">>, <<"d",".","h">>, <<"d","l","l">>}

\* listings of at most MaxEntries entries, no name twice
Listings ==
    {l \in UNION {[1..n -> EntryNames] : n \in 0..MaxEntries} :
        \A i, j \in 1..Len(l) : i # j => l[i] # l[j]}

DistDirs == {<<"/","d">>, <<"/","E">>}

\* no two names of the listing differ in case only: a directory of a file
\* system that does not tell case apart holds no such pair
NoCaseClash(l) == \A i, j \in 1..Len(l) : i # j => Lower(l[i]) # Lower(l[j])

Envs ==
    {[loader |-> FALSE, torch_file |-> <<>>, lib_isdir |-> FALSE, lib_entries |-> <<>>,
      case_sensitive |-> TRUE],
     [loader |-> TRUE, torch_file |-> <<>>, lib_isdir |-> FALSE, lib_entries |-> <<>>,
      case_sensitive |-> TRUE]}
    \cup
    {[loader |-> TRUE, torch_file |-> f, lib_isdir |-> FALSE, lib_entries |-> <<>>,
      case_sensitive |-> cs] :
        f \in TorchFiles, cs \in BOOLEAN}
    \cup
    {[loader |-> TRUE, torch_file |-> f, lib_isdir |-> TRUE, lib_entries |-> l,
      case_sensitive |-> cs] :
        f \in TorchFiles, l \in Listings, cs \in {TRUE}}
    \cup
    {[loader |-> TRUE, torch_file |-> f, lib_isdir |-> TRUE, lib_entries |-> l,
      case_sensitive |-> cs] :
        f \in TorchFiles, l \in {k \in Listings : NoCaseClash(k)}, cs \in {FALSE}}

\* what can go wrong in the file system while the files are copied: os.listdir
\* raises, or os.makedirs or shutil.copy raises at the k-th file
Faults ==
    {<<"none", 0>>, <<"listdir", 0>>}
    \cup {<<"makedirs", k>> : k \in 1..MaxEntries}
    \cup {<<"copy", k>> : k \in 1..MaxEntries}

TorchModuleNames == {S_torch, S_torch \o S_x, S_torch \o S_dot \o S_x, S_x}

TorchPackages == {S_torchvision_transforms, S_torchvision, S_PIL, <<>>}

TorchEncounterNames == {S_Image, S_ImageColor, S_ImageOps, S_ImageEnhance, S_ImageStat,
                        S_ImageFilter, S_ImageDraw, S_functional}

TorchModuleFilenames == {"PIL/Image.py"}

TorchModuleKinds == {"py"}

\* two paths name the same file: exactly, or up to case where the file
\* system does not tell case apart
SamePath(p, q) == IF env.case_sensitive THEN p = q ELSE Lower(p) = Lower(q)

\* os.path.exists for a directory of the output tree
Exists(p, d) == \E q \in d : SamePath(p, q)

---------------------------------------------------------------------------
(* TorchPlugin                                                             *)

\* get_module_file_attribute("torch"): the path, or the exception raised
ModuleFileAttribute ==
    IF ~env.loader THEN [exc |-> "AttributeError", attr |-> <<>>]
    ELSE IF env.torch_file = <<>> THEN [exc |-> "ImportError", attr |-> <<>>]
    ELSE [exc |-> "none", attr |-> env.torch_file]

\* the torch/lib directory get_torch_core_binaries looks into
ExtraDll(attr) == PathJoin(DirName(attr), S_lib)

\* a variant that forgets the C header files
IsCoreBinary_noHeaders(f) == \E ext \in CoreExtensions \ {<<".","h">>} : EndsWith(f, ext)

\* f.endswith((".dll", ".so", ".dylib", ".h"))
IsCoreBinary(f) == \E ext \in CoreExtensions : EndsWith(f, ext)

\* the loop over netto_bins
RECURSIVE KeepBinaries(_, _)
KeepBinaries(extra_dll, netto_bins) ==
    IF netto_bins = <<>> THEN <<>>
    ELSE IF ~IsCoreBinary(Head(netto_bins)) THEN KeepBinaries(extra_dll, Tail(netto_bins))
    ELSE <<<<PathJoin(extra_dll, Head(netto_bins)), ".">>>>
         \o KeepBinaries(extra_dll, Tail(netto_bins))

\* get_torch_core_binaries: the list returned, or the exception raised;
\* listed tells whether os.listdir was called
TorchCoreBinaries(fault) ==
    LET m == ModuleFileAttribute
    IN  IF m.exc # "none"
        THEN [exc |-> m.exc, binaries |-> <<>>, listed |-> FALSE]
        ELSE IF ~env.lib_isdir
        THEN [exc |-> "none", binaries |-> <<>>, listed |-> FALSE]
        ELSE IF fault[1] = "listdir"
        THEN [exc |-> "OSError", binaries |-> <<>>, listed |-> TRUE]
        ELSE [exc |-> "none",
              binaries |-> KeepBinaries(ExtraDll(m.attr), env.lib_entries),
              listed |-> TRUE]

\* the files of torch/lib, by their paths
LibFiles ==
    IF env.loader /\ env.torch_file # <<>> /\ env.lib_isdir
    THEN {PathJoin(ExtraDll(env.torch_file), env.lib_entries[i]) : i \in 1..Len(env.lib_entries)}
    ELSE {}

\* the file shutil.copy reads when it is handed path: the file of that name
\* where there is one, else, on a file system that does not tell case apart,
\* the file whose name differs in case only; <<>> when there is none
FileRead(path) ==
    IF path \in LibFiles THEN path
    ELSE IF \E q \in LibFiles : SamePath(path, q)
         THEN CHOOSE q \in LibFiles : SamePath(path, q)
         ELSE <<>>

\* a variant that joins dist_dir with the whole path of the file
TarFile_wholePath(dist_dir, bin_file) == PathJoin(dist_dir, bin_file)

\* tar_file, from idx and back_end
TarFile(dist_dir, bin_file) ==
    LET idx == Find(bin_file, S_torch)
        back_end == SliceFrom(bin_file, idx)
    IN  PathJoin(dist_dir, back_end)

\* os.makedirs: the directory and every missing one above it
MakeDirs(d, path) == d \cup WithParents(path)

\* the loop over binaries, from the i-th on: the directories and the copies
\* made when it ends, and the exception that ended it
RECURSIVE CopyLoop(_, _, _, _, _, _)
CopyLoop(binaries, i, dist_dir, d, log, fault) ==
    IF i > Len(binaries) THEN [dirs |-> d, copied |-> log, exc |-> "none"]
    ELSE
    LET f == binaries[i]
        bin_file == Lower(f[1])
        idx == Find(bin_file, S_torch)
        tar_file == TarFile(dist_dir, bin_file)
        missing == ~Exists(DirName(tar_file), d)
        d2 == IF missing THEN MakeDirs(d, DirName(tar_file)) ELSE d
        entry == [listed |-> f[1], bin_file |-> bin_file, idx |-> idx,
                  dist_dir |-> dist_dir, tar_file |-> tar_file, read |-> FileRead(bin_file),
                  made_dirs |-> missing,
                  parent_exists |-> Exists(DirName(tar_file), d2)]
    IN  IF missing /\ fault = <<"makedirs", i>>
        THEN [dirs |-> d, copied |-> log, exc |-> "OSError"]
        ELSE IF fault = <<"copy", i>> \/ FileRead(bin_file) = <<>>
        THEN [dirs |-> d2, copied |-> log, exc |-> "IOError"]
        ELSE CopyLoop(binaries, i + 1, dist_dir, d2, Append(log, entry), fault)

\* a variant that never takes the early return
NotFirstTime_never(flag) == FALSE

\* if self.files_copied is True
NotFirstTime(flag) == flag = TRUE

\* a variant that sets the flag only when the copy went through
FlagAfterTorch_onSuccess(exc) == exc = "none"

\* self.files_copied = True comes before get_torch_core_binaries is called,
\* so the flag is set whatever the outcome exc of the rest
FlagAfterTorch(exc) == TRUE

\* what a call returns or raises
Outcome(exc) == IF exc = "none" THEN <<"()">> ELSE <<"raise", exc>>

\* considerExtraDlls: the state it leaves and what it returns or raises;
\* entered counts its calls of get_torch_core_binaries, returned tells
\* whether that call returned a list, listed whether os.listdir was called
ConsiderExtraDlls(flag, d, log, dist_dir, full_name, fault) ==
    IF NotFirstTime(flag)
    THEN [files_copied |-> flag, dirs |-> d, copied |-> log, ret |-> <<"()">>,
          entered |-> 0, listed |-> FALSE, returned |-> FALSE, binaries |-> <<>>]
    ELSE IF full_name = S_torch
    THEN LET b == TorchCoreBinaries(fault)
         IN  IF b.exc # "none" \/ Len(b.binaries) = 0
             THEN [files_copied |-> FlagAfterTorch(b.exc), dirs |-> d, copied |-> log,
                   ret |-> Outcome(b.exc), entered |-> 1, listed |-> b.listed,
                   returned |-> b.exc = "none", binaries |-> b.binaries]
             ELSE LET c == CopyLoop(b.binaries, 1, dist_dir, d, log, fault)
                  IN  [files_copied |-> FlagAfterTorch(c.exc), dirs |-> c.dirs,
                       copied |-> c.copied, ret |-> Outcome(c.exc), entered |-> 1,
                       listed |-> b.listed, returned |-> TRUE, binaries |-> b.binaries]
    ELSE [files_copied |-> flag, dirs |-> d, copied |-> log, ret |-> <<"()">>,
          entered |-> 0, listed |-> FALSE, returned |-> FALSE, binaries |-> <<>>]

TorchConsiderExtraDlls ==
    /\ HostIdle
    /\ runs < MaxRuns
    /\ \E dist_dir \in DistDirs, full_name \in TorchModuleNames, fault \in Faults :
          \E r \in {ConsiderExtraDlls(files_copied, dirs, copied, dist_dir, full_name, fault)} :
              /\ call' = [op |-> "TorchPlugin.considerExtraDlls",
                          dist_dir |-> dist_dir,
                          module |-> full_name,
                          fault |-> fault,
                          flag_before |-> files_copied,
                          dirs_before |-> dirs,
                          copied_before |-> Len(copied),
                          failure_before |-> failure,
                          entered |-> r.entered,
                          listed |-> r.listed,
                          returned |-> r.returned,
                          binaries |-> r.binaries,
                          ret |-> r.ret]
              /\ files_copied' = r.files_copied
              /\ dirs' = r.dirs
              /\ copied' = r.copied
              /\ runs' = runs + r.entered
              /\ failure' = IF r.ret[1] = "raise" /\ failure = "none" THEN r.ret[2] ELSE failure
    /\ UNCHANGED env

\* a variant that takes every module of the PIL package
TorchEncounterResult_anyPIL(module_filename, module_name, module_package, module_kind) ==
    IF module_package = S_torchvision_transforms
    THEN <<"tuple", TRUE, "Basic torchvision module">>
    ELSE IF module_package = S_PIL
    THEN <<"tuple", TRUE, "Required by torchvision">>
    ELSE <<"None">>

TorchEncounterResult(module_filename, module_name, module_package, module_kind) ==
    IF module_package = S_torchvision_transforms
    THEN <<"tuple", TRUE, "Basic torchvision module">>
    ELSE IF module_package = S_PIL /\ module_name \in
                {S_Image, S_ImageColor, S_ImageOps, S_ImageEnhance, S_ImageStat, S_ImageFilter}
    THEN <<"tuple", TRUE, "Required by torchvision">>
    ELSE <<"None">>

TorchOnModuleEncounter ==
    /\ HostIdle
    /\ \E module_filename \in TorchModuleFilenames, module_name \in TorchEncounterNames,
          module_package \in TorchPackages, module_kind \in TorchModuleKinds :
          call' = [op |-> "TorchPlugin.onModuleEncounter",
                   module_filename |-> module_filename,
                   module_name |-> module_name,
                   module_package |-> module_package,
                   module_kind |-> module_kind,
                   flag_before |-> files_copied,
                   ret |-> TorchEncounterResult(module_filename, module_name,
                                                module_package, module_kind)]
    /\ UNCHANGED torch_vars

---------------------------------------------------------------------------
(* A TorchPlugin instance right after __init__, in any of the              *)
(* environments, and the hooks the host calls on it.                       *)

Init ==
    /\ call = NoCall
    /\ files_copied = FALSE
    /\ env \in Envs
    /\ dirs = DistDirs
    /\ copied = <<>>
    /\ runs = 0
    /\ failure = "none"

Next ==
    \/ TorchConsiderExtraDlls
    \/ TorchOnModuleEncounter
    \/ HostReturn

Spec == Init /\ [][Next]_vars

---------------------------------------------------------------------------
(* Claims about TorchPlugin, checked under Spec.                           *)

InConsiderExtraDlls == call.op = "TorchPlugin.considerExtraDlls"

InTorchEncounter == call.op = "TorchPlugin.onModuleEncounter"

\* the call changed neither the output tree nor the log of copies
NothingCopied ==
    /\ Len(copied) = call.copied_before
    /\ dirs = call.dirs_before

C2_FailureNotRetried ==
    /\ failure # "none" => files_copied
    /\ InConsiderExtraDlls =>
          /\ call.ret[1] = "raise" =>
                /\ ~call.flag_before
                /\ call.module = S_torch
                /\ files_copied
                /\ failure = call.ret[2]
          /\ call.failure_before # "none" =>
                /\ call.ret = <<"()">>
                /\ call.entered = 0
                /\ NothingCopied

\* the names of torch/lib that end with one of the four extensions
KeptEntries ==
    {i \in 1..Len(env.lib_entries) :
        \/ EndsWith(env.lib_entries[i], <<".","d","l","l">>)
        \/ EndsWith(env.lib_entries[i], <<".","s","o">>)
        \/ EndsWith(env.lib_entries[i], <<".","d","y","l","i","b">>)
        \/ EndsWith(env.lib_entries[i], <<".","h">>)}

\* a call for "torch" after a copy that stopped at its second file: the
\* first file is in the output tree, the second is never copied
C2_Witness ==
    /\ InConsiderExtraDlls
    /\ call.module = S_torch
    /\ call.failure_before = "IOError"
    /\ Len(copied) = 1
    /\ Cardinality(KeptEntries) = 2

\* C7: TorchPlugin.onModuleEncounter returns True with a reason exactly for
\* the package "torchvision.transforms" and for the six PIL modules, None
\* otherwise, and files_copied is after the call what it was before.
C7_TorchEncounter ==
    InTorchEncounter =>
        /\ call.ret[1] \in {"tuple", "None"}
        /\ call.ret[1] = "tuple" => call.ret[2] = TRUE
        /\ call.ret[1] = "tuple" <=>
              \/ call.module_package = S_torchvision_transforms
              \/ /\ call.module_package = S_PIL
                 /\ \/ call.module_name = S_Image
                    \/ call.module_name = S_ImageColor
                    \/ call.module_name = S_ImageOps
                    \/ call.module_name = S_ImageEnhance
                    \/ call.module_name = S_ImageStat
                    \/ call.module_name = S_ImageFilter
        /\ files_copied = call.flag_before

\* a PIL module outside the list, met after the files were copied
C7_Witness ==
    /\ InTorchEncounter
    /\ files_copied
    /\ call.module_package = S_PIL
    /\ call.module_name = S_ImageDraw
    /\ call.ret = <<"None">>

\* the "lib" directory beside torch/__init__.py
TorchLibDir ==
    SubSeq(env.torch_file, 1, Len(env.torch_file) - Len(S_init_py)) \o S_lib

\* how many entries of binaries are (path, ".")
TimesListed(binaries, path) ==
    Cardinality({j \in 1..Len(binaries) : binaries[j] = <<path, ".">>})

\* C8: get_torch_core_binaries returns one entry (full path, ".") for each
\* name of torch/lib that ends with .dll, .so, .dylib or .h and none for any
\* other name; without a torch/lib directory it returns the empty list, and
\* considerExtraDlls copies nothing and makes no directory.
C8_CoreBinaries ==
    InConsiderExtraDlls /\ call.returned =>
        IF env.lib_isdir
        THEN /\ Len(call.binaries) = Cardinality(KeptEntries)
             /\ \A i \in 1..Len(env.lib_entries) :
                   TimesListed(call.binaries, TorchLibDir \o <<"/">> \o env.lib_entries[i])
                       = (IF i \in KeptEntries THEN 1 ELSE 0)
        ELSE /\ call.binaries = <<>>
             /\ ~call.listed
             /\ call.ret = <<"()">>
             /\ NothingCopied

\* a torch/lib of two entries, one kept and one left out
C8_Witness ==
    /\ InConsiderExtraDlls
    /\ call.returned
    /\ Len(env.lib_entries) = 2
    /\ Len(call.binaries) = 1

\* C9: for every file copied, "torch" is found in the lowercased path at an
\* index above 0, the target is dist_dir joined with the tail of the path
\* from that index, which begins with "torch", so the target lies inside
\* dist_dir, and the target's directory exists when the copy is made and
\* was made first when it was missing.
C9_CopyTarget ==
    InConsiderExtraDlls =>
    \A n \in (call.copied_before + 1)..Len(copied) :
        LET c == copied[n]
            tail == DropFirst(c.bin_file, c.idx)
        IN  /\ c.bin_file = Lower(c.listed)
            /\ c.idx > 0
            /\ SubSeq(c.bin_file, c.idx + 1, c.idx + Len(S_torch)) = S_torch
            /\ \A k \in 0..(c.idx - 1) :
                  SubSeq(c.bin_file, k + 1, k + Len(S_torch)) # S_torch
            /\ c.tar_file = c.dist_dir \o <<"/">> \o tail
            /\ StartsWith(tail, S_torch)
            /\ c.parent_exists
            /\ Exists(DirName(c.tar_file), dirs)
            /\ c.made_dirs => ~Exists(DirName(c.tar_file), DistDirs)

\* two files copied in one call: the directory is made for the first and
\* found for the second
C9_Witness ==
    /\ InConsiderExtraDlls
    /\ call.copied_before = 0
    /\ Len(copied) = 2
    /\ copied[1].made_dirs
    /\ ~copied[2].made_dirs
    /\ copied[1].idx > 1

---------------------------------------------------------------------------
(* The source of the copies, checked under Spec.                           *)

\* the copies the call made, by their positions in the log
CopiesOfCall == (call.copied_before + 1)..Len(copied)

\* C11: for every entry get_torch_core_binaries lists, the path handed to
\* the file copy is the path that was listed and the file read is the listed
\* file, whether or not the path has upper-case characters: every copy made
\* has the listed path as its source and reads that file, and when nothing
\* in the file system fails every listed entry is copied, in order.
C11_SourceIsListed ==
    InConsiderExtraDlls =>
        /\ \A n \in CopiesOfCall :
              /\ copied[n].bin_file = copied[n].listed
              /\ copied[n].read = copied[n].listed
        /\ call.returned /\ call.fault = <<"none", 0>> =>
              /\ call.ret = <<"()">>
              /\ Len(copied) - call.copied_before = Len(call.binaries)
              /\ \A j \in 1..Len(call.binaries) :
                    copied[call.copied_before + j].listed = call.binaries[j][1]

=============================================================================
